---- MODULE Spec2Model ----
(***************************************************************************)
(* gptt: the day enumeration of get_transit_plans_for_day                  *)
(* (src/gptt/timetables.py) and the functions it drives.                   *)
(*                                                                         *)
(* The three Google endpoints are the environment.  Every answer they can  *)
(* give is drawn from a small catalogue; what the program does with an     *)
(* answer is translated from the source line by line.                      *)
(***************************************************************************)
EXTENDS Integers, Sequences, FiniteSets, TLC

VARIABLES
    pc,                             \* position in get_transit_plans_for_day, or its outcome
    date,                           \* argument date, parsed: [year, month, day]
    max_transfers,                  \* argument max_transfers
    station_name_replacements,      \* argument station_name_replacements
    get_station_localities,         \* argument get_station_localities
    start_of_day,                   \* line 282, 288
    end_of_day,                     \* line 289
    origin_time_offset,             \* line 285
    this_departure_time,            \* line 292: the search cursor
    full_transit_results,           \* line 295: the accumulated itineraries
    failed_attempts,                \* line 300: consecutive failures
    total_times_error_encountered,  \* line 303: cumulative failures
    timetable_data,                 \* line 158: the latest Directions answer
    transit_results,                \* line 314: the latest normalised itinerary
    filtered_results,               \* line 376
    locations,                      \* line 387: the coordinate keys to look up, as listed
    location_lookup,                \* line 394: coordinate key -> locality name
    geocode_queries,                \* history: every reverse-geocoding query and its answer
    returned,                       \* the list handed to the caller, <<>> until then
    warned,                         \* logging.warn of line 371 was called
    queries,                        \* history: every Directions query and its answer
    timetable                       \* the itineraries a timetable-driven upstream holds

vars == <<pc, date, max_transfers, station_name_replacements, get_station_localities,
          start_of_day, end_of_day, origin_time_offset,
          this_departure_time, full_transit_results, failed_attempts,
          total_times_error_encountered, timetable_data, transit_results,
          filtered_results, locations, location_lookup, geocode_queries,
          returned, warned, queries, timetable>>

\* The arguments of a call, and the timetable of its upstream.
args == << date, max_transfers, station_name_replacements, get_station_localities,
           timetable >>

\* The state of the locality annotation.
annotation == << locations, location_lookup, geocode_queries >>

(***************************************************************************)
(* Bounds of the exploration.                                              *)
(***************************************************************************)
\* Directions queries explored once the upstream has answered anything but
\* "no transit directions"; a day of nothing but such answers is explored whole.
MaxQueries == 4
\* Longest accumulated list the transfer filter is applied to on its own.
MaxListLen == 3
\* Largest step count of an itinerary in those lists.
MaxSteps == 5
\* Longest list the locality annotation is applied to, and the largest step
\* count of an itinerary in it.
MaxAnnotatedLen == 2
MaxAnnotatedSteps == 3
\* Longest leg get_transit_plan_for_timestamp is applied to on its own.
MaxLegLen == 3

(***************************************************************************)
(* Program constants.                                                      *)
(***************************************************************************)
SecondsPerDay == 24 * 60 * 60       \* line 289
RetryUnit == 5 * 60                 \* line 333

(***************************************************************************)
(* Line 281-282: the date string, parsed by strptime, as seconds since     *)
(* 1970-01-01T00:00:00 with the date taken as UTC.  A date is modelled by  *)
(* the eight digits of its YYYY-MM-DD text.                                *)
(***************************************************************************)
Dates == { <<2,0,2,0,0,2,2,9>>, <<2,0,2,1,0,3,0,1>> }

ParseYear(s) == s[1] * 1000 + s[2] * 100 + s[3] * 10 + s[4]
ParseMonth(s) == s[5] * 10 + s[6]
ParseDay(s) == s[7] * 10 + s[8]

IsLeap(y) == (y % 4 = 0) /\ ((y % 100 # 0) \/ (y % 400 = 0))

\* Days in the years 1 .. y-1 of the proleptic Gregorian calendar.
DaysBeforeYear(y) ==
    LET p == y - 1 IN p * 365 + (p \div 4) - (p \div 100) + (p \div 400)

DaysInMonth(y, m) ==
    IF m = 2 THEN (IF IsLeap(y) THEN 29 ELSE 28)
    ELSE IF m \in {4, 6, 9, 11} THEN 30 ELSE 31

RECURSIVE DaysBeforeMonth(_, _)
DaysBeforeMonth(y, m) ==
    IF m = 1 THEN 0 ELSE DaysBeforeMonth(y, m - 1) + DaysInMonth(y, m - 1)

Ordinal(y, m, d) == DaysBeforeYear(y) + DaysBeforeMonth(y, m) + d

\* int((utc_time - datetime(1970, 1, 1)).total_seconds())
UtcMidnightEpoch(s) ==
    (Ordinal(ParseYear(s), ParseMonth(s), ParseDay(s)) - Ordinal(1970, 1, 1))
        * SecondsPerDay

(***************************************************************************)
(* get_location_time_offset, lines 41-107.  The answers of the Geocoding   *)
(* and Time Zone endpoints are the environment's choice.                   *)
(***************************************************************************)
GeocodeAnswers ==
    { [status |-> "OK",           has_lat |-> TRUE,  has_lng |-> TRUE],
      [status |-> "OK",           has_lat |-> TRUE,  has_lng |-> FALSE],
      [status |-> "ZERO_RESULTS", has_lat |-> FALSE, has_lng |-> FALSE] }

\* has_dst = FALSE: the answer carries no dstOffset key.
TimeZoneAnswers ==
    { [status |-> "OK", has_dst |-> TRUE,  dstOffset |-> 3600, rawOffset |-> -18000],
      [status |-> "OK", has_dst |-> FALSE, dstOffset |-> 0,    rawOffset |-> 0],
      [status |-> "OK", has_dst |-> TRUE,  dstOffset |-> 3600, rawOffset |-> 3600],
      [status |-> "REQUEST_DENIED", has_dst |-> FALSE, dstOffset |-> 0, rawOffset |-> 0] }

\* Lines 100-102.
TimeOffset(tz) == (IF tz.has_dst THEN tz.dstOffset ELSE 0) + tz.rawOffset

\* The outcome of get_location_time_offset: an exception name, or "ok" and the offset.
get_location_time_offset(geo, tz) ==
    IF geo.status # "OK" THEN [outcome |-> "GeocodingAPIError", offset |-> 0]
    ELSE IF ~geo.has_lat \/ ~geo.has_lng
         THEN [outcome |-> "ValueError: Coordinates could not be parsed", offset |-> 0]
    ELSE IF tz.status # "OK" THEN [outcome |-> "TimeZoneAPIError", offset |-> 0]
    ELSE [outcome |-> "ok", offset |-> TimeOffset(tz)]

\* Mutant of LocalStartOfDay: the offset is added.
LocalStartOfDayAdded(baseline, offset) == baseline + offset

\* Line 288.
LocalStartOfDay(baseline, offset) == baseline - offset
\* Line 289.
LocalEndOfDay(start) == start + SecondsPerDay

(***************************************************************************)
(* The Directions endpoint's answers.  A leg is a sequence of segments; a  *)
(* transit segment carries its stops' coordinates and its times, relative  *)
(* here to the departure of the leg's first transit segment.               *)
(***************************************************************************)
\* Text is a sequence of characters.
Ulm_Hbf == << "U", "l", "m", " ", "H", "b", "f" >>
Frankfurt_Hauptbahnhof == << "F", "r", "a", "n", "k", "f", "u", "r", "t", " ", "H", "a", "u", "p", "t", "b", "a", "h", "n", "h", "o", "f" >>
Bahnhof_Zoo_Bahnhof == << "B", "a", "h", "n", "h", "o", "f", " ", "Z", "o", "o", " ", "B", "a", "h", "n", "h", "o", "f" >>

\* The stops of the line: stop k lies at latitude 50 + k, longitude 8.
StopName(k) ==
    CASE k = 0 -> Ulm_Hbf
      [] k = 1 -> Frankfurt_Hauptbahnhof
      [] OTHER -> Bahnhof_Zoo_Bahnhof

Walk ==
    [travel_mode |-> "WALKING", departure_dt |-> 0, arrival_dt |-> 0,
     departure_name |-> << >>, arrival_name |-> << >>,
     departure_lat |-> 0, departure_lng |-> 0, arrival_lat |-> 0, arrival_lng |-> 0]

\* The i-th vehicle of a journey: from stop i to stop i+1, a quarter of an hour apart.
Ride(i) ==
    [travel_mode |-> "TRANSIT", departure_dt |-> (i - 1) * 900, arrival_dt |-> i * 900 - 300,
     departure_name |-> StopName(i % 3), arrival_name |-> StopName((i + 1) % 3),
     departure_lat |-> 50 + (i % 3), departure_lng |-> 8,
     arrival_lat |-> 50 + ((i + 1) % 3), arrival_lng |-> 8]

LegDirect == << Walk, Ride(1), Walk >>
LegChanges == << Ride(1), Walk, Ride(2), Ride(3) >>
LegOnFoot == << Walk >>
Legs == { LegDirect, LegChanges, LegOnFoot }

\* A leg of n vehicles and no walking.
RidesOnly(n) == [i \in 1..n |-> Ride(i)]

\* A status "OK" answer whose first transit segment departs at d.
OKResponse(d, leg) ==
    [status |-> "OK", has_modes |-> FALSE, available_travel_modes |-> {},
     steps |-> [i \in 1..Len(leg) |->
                  [travel_mode |-> leg[i].travel_mode,
                   departure_time |-> d + leg[i].departure_dt,
                   arrival_time |-> d + leg[i].arrival_dt,
                   departure_name |-> leg[i].departure_name,
                   arrival_name |-> leg[i].arrival_name,
                   departure_lat |-> leg[i].departure_lat,
                   departure_lng |-> leg[i].departure_lng,
                   arrival_lat |-> leg[i].arrival_lat,
                   arrival_lng |-> leg[i].arrival_lng]]]

\* has_modes = FALSE: the answer carries no available_travel_modes key.
FailedResponse(status, has_modes, modes) ==
    [status |-> status, has_modes |-> has_modes, available_travel_modes |-> modes,
     steps |-> << >>]

NoTransitResponse == FailedResponse("ZERO_RESULTS", TRUE, {"DRIVING", "WALKING", "BICYCLING"})
OtherFailedResponses ==
    { FailedResponse("OVER_QUERY_LIMIT", FALSE, {}),
      FailedResponse("ZERO_RESULTS", TRUE, {"DRIVING", "TRANSIT"}) }

(***************************************************************************)
(* get_transit_plan_for_timestamp, lines 109-231.                          *)
(***************************************************************************)
\* Mutant of AvailableTravelModes: the default of .get() is an empty list.
AvailableTravelModesNoDefault(resp) == resp.available_travel_modes

\* Line 166: timetable_data.get('available_travel_modes', 'TRANSIT'); the default,
\* the string 'TRANSIT', contains 'TRANSIT'.
AvailableTravelModes(resp) ==
    IF resp.has_modes THEN resp.available_travel_modes ELSE {"TRANSIT"}

\* Mutant of DirectionsFailure: every non-OK answer is taken as transient.
DirectionsFailureAllTransient(resp) == "DirectionsAPINoTransitDirectionsError"

\* Lines 160-169: the exception a non-OK answer raises.
DirectionsFailure(resp) ==
    IF "TRANSIT" \notin AvailableTravelModes(resp)
    THEN "DirectionsAPINoTransitDirectionsError"
    ELSE "DirectionsAPIGenericError"

\* Mutant of IsTransitStep: no segment is dropped.
IsTransitStepAny(x) == TRUE

\* Line 183.
IsTransitStep(x) == x.travel_mode # "WALKING"

\* str.replace(old, new) for a non-empty old: the occurrences of old are found
\* from the left, without overlap, and each is replaced by new.
RECURSIVE Replace(_, _, _)
Replace(s, old, new) ==
    IF Len(s) < Len(old) THEN s
    ELSE IF SubSeq(s, 1, Len(old)) = old
         THEN new \o Replace(SubSeq(s, Len(old) + 1, Len(s)), old, new)
         ELSE << Head(s) >> \o Replace(Tail(s), old, new)

\* Mutant of ReplaceStationName: the replacements are applied last to first.
RECURSIVE ReplaceStationNameBackwards(_, _)
ReplaceStationNameBackwards(name, replacements) ==
    IF replacements = << >> THEN name
    ELSE LET r == Head(replacements)
         IN  Replace(ReplaceStationNameBackwards(name, Tail(replacements)), r[1], r[2])

\* Lines 201-202 and 212-213: for r in station_name_replacements: name.replace(*r)
RECURSIVE ReplaceStationName(_, _)
ReplaceStationName(name, replacements) ==
    IF replacements = << >> THEN name
    ELSE LET r == Head(replacements)
         IN  ReplaceStationName(Replace(name, r[1], r[2]), Tail(replacements))

\* Lines 195-228: the step_data of one transit segment; a location is the pair
\* of numbers that str(lat) + ',' + str(lng) writes.
StepData(s, replacements) ==
    [departure_stop |-> ReplaceStationName(s.departure_name, replacements),
     departure_location |-> << s.departure_lat, s.departure_lng >>,
     departure_time_epoch |-> s.departure_time,
     arrival_stop |-> ReplaceStationName(s.arrival_name, replacements),
     arrival_location |-> << s.arrival_lat, s.arrival_lng >>,
     arrival_time_epoch |-> s.arrival_time]

\* Lines 183-231.
TransitResults(steps, replacements) ==
    LET transit_steps == SelectSeq(steps, IsTransitStep)
    IN  [i \in 1..Len(transit_steps) |-> StepData(transit_steps[i], replacements)]

get_transit_plan_for_timestamp(resp, replacements) ==
    IF resp.status # "OK"
    THEN [outcome |-> DirectionsFailure(resp), steps |-> << >>]
    ELSE [outcome |-> "ok", steps |-> TransitResults(resp.steps, replacements)]

(***************************************************************************)
(* The upstream.  Asked at instant t it may answer with any failure, or    *)
(* with any leg departing two seconds before t, at t, two seconds before   *)
(* the end of the day, or at the end of the day.                           *)
(***************************************************************************)
DepartureChoices(t) == { t - 2, t, end_of_day - 2, end_of_day }

UpstreamResponses(t) ==
    {NoTransitResponse} \cup OtherFailedResponses
        \cup { OKResponse(d, leg) : d \in DepartureChoices(t), leg \in Legs }

(***************************************************************************)
(* A timetable-driven upstream: it holds the itineraries departing at      *)
(* start_of_day + o, o in timetable, and the same ones a day later, never  *)
(* fails, and answers a query at t with the earliest departure >= t.       *)
(***************************************************************************)
TimetableOffsets == { 0, 1, 2, 43200, 86399 }

LegAt(o) == IF o % 2 = 0 THEN LegDirect ELSE LegChanges

SetMin(S) == CHOOSE m \in S : \A x \in S : m <= x

TimetableAnswer(t) ==
    LET today == { o \in timetable : start_of_day + o >= t }
    IN  IF today # {}
        THEN OKResponse(start_of_day + SetMin(today), LegAt(SetMin(today)))
        ELSE OKResponse(end_of_day + SetMin(timetable), LegAt(SetMin(timetable)))

(***************************************************************************)
(* get_transit_plans_for_day, lines 233-421.                               *)
(***************************************************************************)
MaxTransfersChoices == { 0, 99 }

\* Mutant of NextQueryInstant: the cursor is queried as it stands.
NextQueryInstantSame(cursor) == cursor

\* Mutant of NextQueryInstant: the second is subtracted.
NextQueryInstantBack(cursor) == cursor - 1

\* Line 312.
NextQueryInstant(cursor) == cursor + 1

\* Mutant of TimeDelta: every retry jumps five minutes.
TimeDeltaFlat(failed) == RetryUnit

\* Line 333.
TimeDelta(failed) == RetryUnit * (failed + 1)

\* Mutant of CountError: every failure is counted.
CountErrorPerAttempt(total, failed) == total + 1

\* Lines 336-340: the cumulative counter after a failure.
CountError(total, failed) == IF failed = 0 THEN total + 1 ELSE total

\* Mutant of ResetAttempts: the consecutive-failure counter survives a success.
ResetAttemptsKept(failed) == failed

\* Line 326.
ResetAttempts(failed) == 0

\* Mutant of Caught: the except clause is missing.
CaughtNever(outcome) == FALSE

\* Line 327: the exceptions the loop's except clause catches.
Caught(outcome) == outcome = "DirectionsAPINoTransitDirectionsError"

\* Mutant of FallsThrough: the retry never goes back to the head of the loop.
FallsThroughAlways(cursor, end) == TRUE

\* Line 344: after a retry jump control falls through to line 361.
FallsThrough(cursor, end) == cursor + 1 > end

\* Mutant of DayIsOver: the cursor may stand on the end of the day.
DayIsOverLate(cursor, end) == cursor > end

\* Mutant of DayIsOver: a day longer by an hour.
DayIsOverAnHourLate(cursor, end) == cursor + 1 > end + 3600

\* Line 361.
DayIsOver(cursor, end) == cursor + 1 > end

\* Line 359.
FirstDeparture(results) == results[1].departure_time_epoch

\* Mutant of Accumulate: the itinerary is put in front.
AccumulateInFront(full, results) == << results >> \o full

\* Line 374.
Accumulate(full, results) == Append(full, results)

\* Mutant of NothingFound: the check is missing.
NothingFoundNever(full) == FALSE

\* Line 363.
NothingFound(full) == Len(full) = 0

\* Mutant of NoRoutesLeft: the check is missing.
NoRoutesLeftNever(kept) == FALSE

\* Line 380.
NoRoutesLeft(kept) == Len(kept) = 0

\* Mutant of KeepsItinerary: nothing is filtered out.
KeepsItineraryAny(x, max) == TRUE

\* Mutant of KeepsItinerary: max_transfers taken as a number of steps.
KeepsItineraryBySteps(x, max) == Len(x) <= max

\* Line 376.
KeepsItinerary(x, max) == Len(x) <= max + 1

RECURSIVE TransferFilter(_, _)
TransferFilter(full, max) ==
    IF full = << >> THEN << >>
    ELSE (IF KeepsItinerary(Head(full), max) THEN << Head(full) >> ELSE << >>)
             \o TransferFilter(Tail(full), max)

\* The queries explored: see MaxQueries.
QueryAllowed ==
    \/ Len(queries) < MaxQueries
    \/ \A i \in 1..Len(queries) : queries[i].outcome = "DirectionsAPINoTransitDirectionsError"

\* Lines 281-282.
ParseDate ==
    /\ pc = "start"
    /\ start_of_day' = UtcMidnightEpoch(date)
    /\ pc' = "offset"
    /\ UNCHANGED << args, annotation, end_of_day, origin_time_offset,
                    this_departure_time, full_transit_results, failed_attempts,
                    total_times_error_encountered, timetable_data, transit_results,
                    filtered_results, returned, warned, queries >>

\* Lines 284-303.
ResolveDayWindow(geo, tz) ==
    LET got == get_location_time_offset(geo, tz)
        start == LocalStartOfDay(start_of_day, got.offset)
    IN  /\ pc = "offset"
        /\ IF got.outcome # "ok"
           THEN /\ pc' = got.outcome
                /\ UNCHANGED << start_of_day, end_of_day, origin_time_offset,
                                this_departure_time >>
           ELSE /\ pc' = "loop"
                /\ origin_time_offset' = got.offset
                /\ start_of_day' = start
                /\ end_of_day' = LocalEndOfDay(start)
                /\ this_departure_time' = start
        /\ full_transit_results' = << >>
        /\ failed_attempts' = 0
        /\ total_times_error_encountered' = 0
        /\ UNCHANGED << args, annotation, timetable_data, transit_results,
                        filtered_results, returned, warned, queries >>

\* Mutant of WarningDue: the warning is logged whatever the counter.
WarningDueAlways(total) == TRUE

\* Line 370: if total_times_error_encountered.
WarningDue(total) == total # 0

\* Lines 361-374, reached with the cursor, the cumulative counter and the
\* transit_results the iteration has produced.
EndOfIteration(cursor, total, results) ==
    IF DayIsOver(cursor, end_of_day)
    THEN /\ UNCHANGED full_transit_results
         /\ IF NothingFound(full_transit_results)
            THEN /\ pc' = "ValueError: No directions were found"
                 /\ UNCHANGED warned
            ELSE /\ pc' = "filter"
                 /\ warned' = WarningDue(total)
    ELSE /\ full_transit_results' = Accumulate(full_transit_results, results)
         /\ pc' = "loop"
         /\ UNCHANGED warned

\* History: the query at t, the answer's status and travel modes, what
\* get_transit_plan_for_timestamp made of it, and the steps and first-step
\* departure of a normalised itinerary.
Logged(t, resp, got) ==
    [t |-> t, status |-> resp.status, has_modes |-> resp.has_modes,
     available_travel_modes |-> resp.available_travel_modes,
     outcome |-> got.outcome, steps |-> Len(got.steps),
     departure |-> IF got.steps = << >> THEN 0 ELSE FirstDeparture(got.steps)]

\* Lines 309-374: one iteration of the loop, the upstream answering resp.
Query(resp) ==
    LET t == NextQueryInstant(this_departure_time)
        got == get_transit_plan_for_timestamp(resp, station_name_replacements)
    IN  /\ pc = "loop"
        /\ QueryAllowed
        /\ queries' = Append(queries, Logged(t, resp, got))
        /\ timetable_data' = resp
        /\ CASE got.outcome # "ok" /\ ~Caught(got.outcome) ->
                  \* not caught: the exception leaves the function
                  /\ pc' = got.outcome
                  /\ this_departure_time' = t
                  /\ UNCHANGED << full_transit_results, failed_attempts,
                                  total_times_error_encountered, transit_results, warned >>
             [] got.outcome # "ok" /\ Caught(got.outcome) ->
                  LET jumped == t + TimeDelta(failed_attempts)
                      total == CountError(total_times_error_encountered, failed_attempts)
                  IN  /\ this_departure_time' = jumped
                      /\ total_times_error_encountered' = total
                      /\ failed_attempts' = failed_attempts + 1
                      /\ UNCHANGED transit_results
                      /\ IF FallsThrough(jumped, end_of_day)
                         THEN EndOfIteration(jumped, total, transit_results)
                         ELSE /\ pc' = "loop"
                              /\ UNCHANGED << full_transit_results, warned >>
             [] OTHER ->
                  /\ failed_attempts' = ResetAttempts(failed_attempts)
                  /\ transit_results' = got.steps
                  /\ UNCHANGED total_times_error_encountered
                  /\ IF got.steps = << >>
                     THEN \* line 359: transit_results[0] of an empty list
                          /\ pc' = "IndexError"
                          /\ this_departure_time' = t
                          /\ UNCHANGED << full_transit_results, warned >>
                     ELSE /\ this_departure_time' = FirstDeparture(got.steps)
                          /\ EndOfIteration(FirstDeparture(got.steps),
                                            total_times_error_encountered, got.steps)
        /\ UNCHANGED << args, annotation, start_of_day, end_of_day,
                        origin_time_offset, filtered_results, returned >>

\* The upstream answers as it likes.
QueryUpstream ==
    \E resp \in UpstreamResponses(NextQueryInstant(this_departure_time)) : Query(resp)

\* The upstream answers from its timetable.
QueryTimetable == Query(TimetableAnswer(NextQueryInstant(this_departure_time)))

(***************************************************************************)
(* The locality annotation, lines 383-419, and the answers of the reverse  *)
(* geocoding endpoint: a status and the address components of the first    *)
(* result, each a long name and a set of types.                            *)
(***************************************************************************)
Component(name, types) == [long_name |-> name, types |-> types]

ReverseGeocodeAnswers ==
    { [status |-> "OK",
       address_components |-> << Component("Zeil", {"route"}),
                                 Component("Frankfurt am Main", {"locality", "political"}) >>],
      [status |-> "OK",
       address_components |-> << Component("Ulm Post", {"postal_town"}),
                                 Component("Ulm", {"locality", "political"}) >>],
      [status |-> "OK",
       address_components |-> << Component("Berlin", {"locality", "political"}),
                                 Component("Berlin Post", {"postal_town"}),
                                 Component("Mitte", {"locality", "political"}) >>],
      [status |-> "OK",
       address_components |-> << Component("Hardenbergplatz", {"route"}) >>],
      [status |-> "OVER_QUERY_LIMIT", address_components |-> << >>] }

RECURSIVE Flatten(_)
Flatten(lists) == IF lists = << >> THEN << >> ELSE Head(lists) \o Flatten(Tail(lists))

\* Lines 387-388, inside set(): every arrival location, then every departure location.
AllLocations(filtered) ==
    LET steps == Flatten(filtered)
    IN  [i \in 1..Len(steps) |-> steps[i].arrival_location]
            \o [i \in 1..Len(steps) |-> steps[i].departure_location]

Range(list) == { list[i] : i \in 1..Len(list) }

RECURSIVE Orderings(_)
Orderings(S) ==
    IF S = {} THEN { << >> }
    ELSE UNION { { << x >> \o rest : rest \in Orderings(S \ {x}) } : x \in S }

\* Mutant of LocationLists: the locations are taken from the accumulated list.
LocationListsOfAccumulated(filtered) ==
    Orderings(Range(AllLocations(full_transit_results)))

\* Mutant of LocationLists: the list is not made a set.
LocationListsWithRepeats(filtered) == { AllLocations(filtered) }

\* Lines 387-388: list(set(...)), a list of the distinct locations in the order
\* the set happens to yield them.
LocationLists(filtered) == Orderings(Range(AllLocations(filtered)))

\* Line 410.
IsMunicipality(x) == "locality" \in x.types \/ "postal_town" \in x.types

\* Mutant of MunicipalityName: the last matching component is taken.
MunicipalityNameLast(matching) == matching[Len(matching)].long_name

\* Lines 409-410: [...][0].
MunicipalityName(matching) == matching[1].long_name

\* Line 411: location_lookup[loc] = location_name.
Store(lookup, loc, name) ==
    [k \in DOMAIN lookup \cup {loc} |-> IF k = loc THEN name ELSE lookup[k]]

\* Lines 416-419.
Annotated(filtered, lookup) ==
    [i \in 1..Len(filtered) |->
        [j \in 1..Len(filtered[i]) |->
            filtered[i][j] @@
                [departure_locality |-> lookup[filtered[i][j].departure_location],
                 arrival_locality |-> lookup[filtered[i][j].arrival_location]]]]

\* Mutant of StepsAfterPass: each step is given the localities found so far.
StepsAfterPassEager(filtered, lookup, last) ==
    [i \in 1..Len(filtered) |->
        [j \in 1..Len(filtered[i]) |->
            LET step == filtered[i][j]
                from == IF step.departure_location \in DOMAIN lookup
                        THEN [departure_locality |-> lookup[step.departure_location]]
                        ELSE << >>
                to == IF step.arrival_location \in DOMAIN lookup
                      THEN [arrival_locality |-> lookup[step.arrival_location]]
                      ELSE << >>
            IN  from @@ to @@ step]]

\* Lines 395-419: the steps after a pass of the loop over locations; the loop
\* that annotates them (line 416) comes after the last pass.
StepsAfterPass(filtered, lookup, last) ==
    IF last THEN Annotated(filtered, lookup) ELSE filtered

\* Lines 376-390, and lines 383 and 421 when get_station_localities is False.
FilterAndReturn ==
    LET kept == TransferFilter(full_transit_results, max_transfers)
    IN  /\ pc = "filter"
        /\ filtered_results' = kept
        /\ IF NoRoutesLeft(kept)
           THEN /\ pc' = "NoEligibleRoutesError"
                /\ UNCHANGED << returned, locations >>
           ELSE IF get_station_localities
           THEN /\ pc' = "localities"
                /\ locations' \in LocationLists(kept)
                /\ UNCHANGED returned
           ELSE /\ pc' = "returned"
                /\ returned' = kept
                /\ UNCHANGED locations
        /\ UNCHANGED << args, location_lookup, geocode_queries, start_of_day, end_of_day,
                        origin_time_offset, this_departure_time, full_transit_results,
                        failed_attempts, total_times_error_encountered, timetable_data,
                        transit_results, warned, queries >>

\* Lines 395-411: one pass of the loop over locations, the endpoint answering
\* loc_data; after the last pass, lines 416-421.
ReverseGeocode(loc_data) ==
    LET loc == locations[Len(geocode_queries) + 1]
        asked == [latlng |-> loc, loc_data |-> loc_data]
        matching == SelectSeq(loc_data.address_components, IsMunicipality)
        lookup == Store(location_lookup, loc, MunicipalityName(matching))
        last == Len(geocode_queries) + 1 = Len(locations)
    IN  /\ pc = "localities"
        /\ Len(geocode_queries) < Len(locations)
        /\ geocode_queries' = Append(geocode_queries, asked)
        /\ IF loc_data.status # "OK"
           THEN /\ pc' = "GeocodingAPIError at line 404"
                /\ UNCHANGED << location_lookup, filtered_results, returned >>
           ELSE IF matching = << >>
           THEN /\ pc' = "IndexError at line 410"
                /\ UNCHANGED << location_lookup, filtered_results, returned >>
           ELSE /\ location_lookup' = lookup
                /\ filtered_results' = StepsAfterPass(filtered_results, lookup, last)
                /\ IF last
                   THEN /\ pc' = "returned"
                        /\ returned' = StepsAfterPass(filtered_results, lookup, last)
                   ELSE /\ pc' = "localities"
                        /\ UNCHANGED returned
        /\ UNCHANGED << args, locations, start_of_day, end_of_day, origin_time_offset,
                        this_departure_time, full_transit_results, failed_attempts,
                        total_times_error_encountered, timetable_data, transit_results,
                        warned, queries >>

Annotate == \E loc_data \in ReverseGeocodeAnswers : ReverseGeocode(loc_data)

(***************************************************************************)
(* Specifications.                                                         *)
(***************************************************************************)
\* No Directions answer yet.
NoAnswer == FailedResponse("", FALSE, {})

\* The state a call starts in, with the default station_name_replacements and
\* get_station_localities.
Entry ==
    /\ pc = "start"
    /\ date \in Dates
    /\ max_transfers \in MaxTransfersChoices
    /\ station_name_replacements = << >>
    /\ get_station_localities = FALSE
    /\ start_of_day = 0
    /\ end_of_day = 0
    /\ origin_time_offset = 0
    /\ this_departure_time = 0
    /\ full_transit_results = << >>
    /\ failed_attempts = 0
    /\ total_times_error_encountered = 0
    /\ timetable_data = NoAnswer
    /\ transit_results = << >>
    /\ filtered_results = << >>
    /\ locations = << >>
    /\ location_lookup = << >>
    /\ geocode_queries = << >>
    /\ returned = << >>
    /\ warned = FALSE
    /\ queries = << >>

Init == Entry /\ timetable = {}

Resolve == \E geo \in GeocodeAnswers, tz \in TimeZoneAnswers : ResolveDayWindow(geo, tz)

Next == ParseDate \/ Resolve \/ QueryUpstream \/ FilterAndReturn

\* A call against an upstream that answers as it likes.
Spec == Init /\ [][Next]_vars

InitDay == Entry /\ timetable \in (SUBSET TimetableOffsets) \ {{}}

NextDay == ParseDate \/ Resolve \/ QueryTimetable \/ FilterAndReturn

\* A call against a timetable-driven upstream.
SpecDay == InitDay /\ [][NextDay]_vars

(***************************************************************************)
(* The transfer filter on its own: the call has left the loop at line 373  *)
(* with any list of 1 .. MaxListLen itineraries of 1 .. MaxSteps steps     *)
(* each, found at consecutive seconds after the start of the day.          *)
(***************************************************************************)
ItineraryOf(n, d) == TransitResults(OKResponse(d, RidesOnly(n)).steps, << >>)

StepCountLists == UNION { [1..n -> 1..MaxSteps] : n \in 1..MaxListLen }

FilterDate == << 2,0,2,0,0,2,2,9 >>

\* The call stands at line 376 having accumulated itineraries of counts[i] steps.
AtFilter(counts) ==
    LET start == LocalStartOfDay(UtcMidnightEpoch(FilterDate), 0)
        end == LocalEndOfDay(start)
        n == Len(counts)
        last == OKResponse(end, LegDirect)
    IN  /\ pc = "filter"
        /\ date = FilterDate
        /\ station_name_replacements = << >>
        /\ start_of_day = start
        /\ end_of_day = end
        /\ origin_time_offset = 0
        /\ this_departure_time = end
        /\ full_transit_results = [i \in 1..n |-> ItineraryOf(counts[i], start + i)]
        /\ failed_attempts = 0
        /\ total_times_error_encountered = 0
        /\ timetable_data = last
        /\ transit_results = TransitResults(last.steps, << >>)
        /\ filtered_results = << >>
        /\ locations = << >>
        /\ location_lookup = << >>
        /\ geocode_queries = << >>
        /\ returned = << >>
        /\ warned = FALSE
        /\ queries = [i \in 1..(n + 1) |->
                        IF i <= n
                        THEN Logged(start + i, OKResponse(start + i, RidesOnly(counts[i])),
                                    [outcome |-> "ok",
                                     steps |-> ItineraryOf(counts[i], start + i)])
                        ELSE Logged(start + i, last,
                                    get_transit_plan_for_timestamp(last, << >>))]
        /\ timetable = {}

InitFilter ==
    /\ \E counts \in StepCountLists : AtFilter(counts)
    /\ max_transfers \in -2..MaxSteps
    /\ get_station_localities = FALSE

NextFilter == FilterAndReturn

SpecFilter == InitFilter /\ [][NextFilter]_vars

(***************************************************************************)
(* The locality annotation on its own: a call with get_station_localities  *)
(* True stands at line 376 with any list of 1 .. MaxAnnotatedLen           *)
(* itineraries of 1 .. MaxAnnotatedSteps steps each.                       *)
(***************************************************************************)
AnnotatedStepCountLists ==
    UNION { [1..n -> 1..MaxAnnotatedSteps] : n \in 1..MaxAnnotatedLen }

InitLocalities ==
    /\ \E counts \in AnnotatedStepCountLists : AtFilter(counts)
    /\ max_transfers \in {0, 1, 99}
    /\ get_station_localities = TRUE

NextLocalities == FilterAndReturn \/ Annotate

SpecLocalities == InitLocalities /\ [][NextLocalities]_vars

(***************************************************************************)
(* get_transit_plan_for_timestamp on its own: called with any answer of    *)
(* the Directions endpoint whose leg has at most MaxLegLen segments, and   *)
(* with any of four lists of station-name replacements.                    *)
(***************************************************************************)
Bahnhof == << "B", "a", "h", "n", "h", "o", "f" >>
Bf == << "B", "f" >>
Hauptbahnhof == << "H", "a", "u", "p", "t", "b", "a", "h", "n", "h", "o", "f" >>
Hbf == << "H", "b", "f" >>

NoReplacements == << >>
Shorten == << << Hauptbahnhof, Hbf >>, << Bahnhof, Bf >> >>
ExpandThenShorten == << << Hbf, Bahnhof >>, << Bahnhof, Bf >> >>
ShortenThenExpand == << << Bahnhof, Bf >>, << Hbf, Bahnhof >> >>
ReplacementLists == { NoReplacements, Shorten, ExpandThenShorten, ShortenThenExpand }

Segments == { Walk, Ride(1), Ride(2), Ride(3) }

PlanLegs == UNION { [1..n -> Segments] : n \in 0..MaxLegLen }

PlanInstant == UtcMidnightEpoch(FilterDate) + SecondsPerDay \div 2

\* Non-OK answers: without the available_travel_modes key, or with a list of
\* travel modes, which may be empty.
PlanFailedResponses ==
    { FailedResponse(status, FALSE, {}) : status \in {"ZERO_RESULTS", "OVER_QUERY_LIMIT"} }
        \cup { FailedResponse(status, TRUE, modes) :
                  status \in {"ZERO_RESULTS", "OVER_QUERY_LIMIT"},
                  modes \in SUBSET {"DRIVING", "WALKING", "TRANSIT"} }

PlanAnswers ==
    {NoTransitResponse} \cup OtherFailedResponses \cup PlanFailedResponses
        \cup { OKResponse(PlanInstant, leg) : leg \in PlanLegs }

\* Lines 143-231: one call of get_transit_plan_for_timestamp.
NormalisePlan ==
    LET got == get_transit_plan_for_timestamp(timetable_data, station_name_replacements)
    IN  /\ pc = "plan"
        /\ pc' = IF got.outcome = "ok" THEN "plan returned" ELSE got.outcome
        /\ transit_results' = got.steps
        /\ UNCHANGED << args, annotation, start_of_day, end_of_day, origin_time_offset,
                        this_departure_time, full_transit_results, failed_attempts,
                        total_times_error_encountered, timetable_data, filtered_results,
                        returned, warned, queries >>

InitPlan ==
    /\ pc = "plan"
    /\ date = FilterDate
    /\ max_transfers = 99
    /\ station_name_replacements \in ReplacementLists
    /\ get_station_localities = FALSE
    /\ start_of_day = 0
    /\ end_of_day = 0
    /\ origin_time_offset = 0
    /\ this_departure_time = 0
    /\ full_transit_results = << >>
    /\ failed_attempts = 0
    /\ total_times_error_encountered = 0
    /\ timetable_data \in PlanAnswers
    /\ transit_results = << >>
    /\ filtered_results = << >>
    /\ locations = << >>
    /\ location_lookup = << >>
    /\ geocode_queries = << >>
    /\ returned = << >>
    /\ warned = FALSE
    /\ queries = << >>
    /\ timetable = {}

NextPlan == NormalisePlan

SpecPlan == InitPlan /\ [][NextPlan]_vars


\* What Python's str.replace makes of each stop name under each list.
ReplacedName(name, replacements) ==
    CASE name = Ulm_Hbf /\ replacements = NoReplacements ->
           << "U", "l", "m", " ", "H", "b", "f" >>  \* Ulm Hbf
      [] name = Frankfurt_Hauptbahnhof /\ replacements = NoReplacements ->
           << "F", "r", "a", "n", "k", "f", "u", "r", "t", " ", "H", "a", "u", "p", "t", "b", "a", "h", "n", "h", "o", "f" >>  \* Frankfurt Hauptbahnhof
      [] name = Bahnhof_Zoo_Bahnhof /\ replacements = NoReplacements ->
           << "B", "a", "h", "n", "h", "o", "f", " ", "Z", "o", "o", " ", "B", "a", "h", "n", "h", "o", "f" >>  \* Bahnhof Zoo Bahnhof
      [] name = Ulm_Hbf /\ replacements = Shorten ->
           << "U", "l", "m", " ", "H", "b", "f" >>  \* Ulm Hbf
      [] name = Frankfurt_Hauptbahnhof /\ replacements = Shorten ->
           << "F", "r", "a", "n", "k", "f", "u", "r", "t", " ", "H", "b", "f" >>  \* Frankfurt Hbf
      [] name = Bahnhof_Zoo_Bahnhof /\ replacements = Shorten ->
           << "B", "f", " ", "Z", "o", "o", " ", "B", "f" >>  \* Bf Zoo Bf
      [] name = Ulm_Hbf /\ replacements = ExpandThenShorten ->
           << "U", "l", "m", " ", "B", "f" >>  \* Ulm Bf
      [] name = Frankfurt_Hauptbahnhof /\ replacements = ExpandThenShorten ->
           << "F", "r", "a", "n", "k", "f", "u", "r", "t", " ", "H", "a", "u", "p", "t", "b", "a", "h", "n", "h", "o", "f" >>  \* Frankfurt Hauptbahnhof
      [] name = Bahnhof_Zoo_Bahnhof /\ replacements = ExpandThenShorten ->
           << "B", "f", " ", "Z", "o", "o", " ", "B", "f" >>  \* Bf Zoo Bf
      [] name = Ulm_Hbf /\ replacements = ShortenThenExpand ->
           << "U", "l", "m", " ", "B", "a", "h", "n", "h", "o", "f" >>  \* Ulm Bahnhof
      [] name = Frankfurt_Hauptbahnhof /\ replacements = ShortenThenExpand ->
           << "F", "r", "a", "n", "k", "f", "u", "r", "t", " ", "H", "a", "u", "p", "t", "b", "a", "h", "n", "h", "o", "f" >>  \* Frankfurt Hauptbahnhof
      [] name = Bahnhof_Zoo_Bahnhof /\ replacements = ShortenThenExpand ->
           << "B", "f", " ", "Z", "o", "o", " ", "B", "f" >>  \* Bf Zoo Bf

(***************************************************************************)
(* Properties.                                                             *)
(***************************************************************************)
IsNoTransit(q) == q.outcome = "DirectionsAPINoTransitDirectionsError"

\* The number of consecutive "no transit directions" failures ending at query i.
RECURSIVE StreakLength(_)
StreakLength(i) ==
    IF i = 0 \/ ~IsNoTransit(queries[i]) THEN 0 ELSE 1 + StreakLength(i - 1)

\* The queries that start a maximal run of consecutive failures.
StreakStarts ==
    { i \in 1..Len(queries) :
        IsNoTransit(queries[i]) /\ (i = 1 \/ ~IsNoTransit(queries[i - 1])) }

\* Every itinerary the upstream returned departs at or after the instant asked for.
AnswersNotBeforeQuery ==
    \A i \in 1..Len(queries) :
        (queries[i].outcome = "ok" /\ queries[i].steps > 0)
            => queries[i].departure >= queries[i].t

RECURSIVE Ascending(_)
Ascending(S) ==
    IF S = {} THEN << >> ELSE << SetMin(S) >> \o Ascending(S \ {SetMin(S)})

\* The timetable's itineraries of the day, by departure.
TimetablePlans ==
    LET os == Ascending(timetable)
    IN  [i \in 1..Len(os) |-> ItineraryOf(IF os[i] % 2 = 0 THEN 1 ELSE 3, start_of_day + os[i])]

\* C1: against a timetable-driven upstream whose N itineraries depart at distinct
\* instants of [start_of_day, end_of_day), and with a max_transfers that filters
\* nothing, the call returns exactly those N itineraries in order of departure.
C1_ExactDayEnumeration ==
    (max_transfers = 99 /\ pc \notin {"start", "offset", "loop", "filter",
                                      "GeocodingAPIError", "TimeZoneAPIError",
                                      "ValueError: Coordinates could not be parsed"})
        => (pc = "returned" /\ returned = TimetablePlans)

\* C2: the query after the k-th consecutive "no transit directions" failure is
\* issued 1 + 300 * k seconds after the query that failed.
C2_RetrySchedule ==
    \A i \in 1..(Len(queries) - 1) :
        IsNoTransit(queries[i])
            => queries[i + 1].t = queries[i].t + 1 + 300 * StreakLength(i)

\* Failures at t and t + 301 followed by a query at t + 902.
C2_Witness ==
    \E i \in 1..(Len(queries) - 2) :
        /\ IsNoTransit(queries[i]) /\ StreakLength(i) = 1
        /\ IsNoTransit(queries[i + 1])
        /\ queries[i + 1].t = queries[i].t + 301
        /\ queries[i + 2].t = queries[i].t + 902

\* C3: the cumulative counter equals the number of maximal runs of consecutive
\* "no transit directions" failures seen so far, and never decreases.
C3_CounterPerStreak ==
    /\ [](total_times_error_encountered = Cardinality(StreakStarts))
    /\ [][total_times_error_encountered' >= total_times_error_encountered]_vars

\* Two consecutive failures, then a success: the counter is 1.
C3_Witness ==
    /\ Len(queries) = 3
    /\ IsNoTransit(queries[1]) /\ IsNoTransit(queries[2]) /\ queries[3].outcome = "ok"
    /\ total_times_error_encountered = 1

\* C4: a loop that ends with nothing accumulated ends in the "No directions were
\* found" ValueError: no list is returned and the transfer filter is not reached;
\* so ends a day on which every query is answered "no transit directions".
C4_NoDirectionsFound ==
    /\ pc \in {"filter", "NoEligibleRoutesError", "returned"}
           => Len(full_transit_results) > 0
    /\ pc = "ValueError: No directions were found"
           => /\ Len(full_transit_results) = 0
              /\ filtered_results = << >>
              /\ returned = << >>
    /\ (pc # "loop" /\ queries # << >> /\ \A i \in 1..Len(queries) : IsNoTransit(queries[i]))
           => pc = "ValueError: No directions were found"

\* A whole day of "no transit directions".
C4_Witness ==
    /\ pc = "ValueError: No directions were found"
    /\ Len(queries) > MaxQueries
    /\ \A i \in 1..Len(queries) : IsNoTransit(queries[i])
    /\ queries[Len(queries)].t > end_of_day - SecondsPerDay \div 4

\* The positions of the accumulated list the filter is to keep.
Eligible == { i \in 1..Len(full_transit_results) :
                Len(full_transit_results[i]) <= max_transfers + 1 }

\* C5: the filtered list is the subsequence of the accumulated list made of the
\* itineraries of at most max_transfers + 1 steps, in their original order.
C5_TransferFilter ==
    pc \in {"returned", "NoEligibleRoutesError"}
        => /\ Len(filtered_results) = Cardinality(Eligible)
           /\ \E f \in [1..Len(filtered_results) -> Eligible] :
                /\ \A j \in 1..Len(filtered_results) :
                       filtered_results[j] = full_transit_results[f[j]]
                /\ \A j, k \in 1..Len(filtered_results) : j < k => f[j] < f[k]

\* Step counts 1, 3, 5 and max_transfers = 1: the 1-step itinerary alone is kept.
C5_Witness ==
    /\ pc = "returned"
    /\ max_transfers = 1
    /\ [i \in 1..Len(full_transit_results) |-> Len(full_transit_results[i])] = << 1, 3, 5 >>
    /\ returned = << full_transit_results[1] >>

IsOtherFailure(q) ==
    q.status # "OK" /\ ~(q.has_modes /\ "TRANSIT" \notin q.available_travel_modes)

\* C7: a non-OK answer other than the transient one ends the call at that query
\* in DirectionsAPIGenericError: no query follows it and nothing is returned.
C7_GenericFailureIsFatal ==
    /\ \A i \in 1..Len(queries) :
          IsOtherFailure(queries[i])
              => /\ i = Len(queries)
                 /\ pc = "DirectionsAPIGenericError"
                 /\ returned = << >>
                 /\ filtered_results = << >>
    /\ pc = "DirectionsAPIGenericError" => IsOtherFailure(queries[Len(queries)])

\* The fatal answer comes after a retried failure and with itineraries accumulated.
C7_Witness ==
    /\ pc = "DirectionsAPIGenericError"
    /\ Len(full_transit_results) >= 1
    /\ \E i \in 1..Len(queries) : IsNoTransit(queries[i])

\* The call has computed its day window.
WindowResolved ==
    pc \in {"loop", "filter", "returned", "NoEligibleRoutesError", "IndexError",
            "DirectionsAPIGenericError", "ValueError: No directions were found"}

\* C8: as long as every returned itinerary departs at or after the instant asked
\* for, the queries are at strictly increasing instants of (start_of_day,
\* end_of_day], so there are at most end_of_day - start_of_day of them.
C8_BoundedQueries ==
    (WindowResolved /\ AnswersNotBeforeQuery)
        => /\ \A i \in 1..Len(queries) :
                 /\ queries[i].t > start_of_day
                 /\ queries[i].t <= end_of_day
                 /\ i > 1 => queries[i].t > queries[i - 1].t
           /\ queries # << >>
                 => Len(queries) <= queries[Len(queries)].t - start_of_day
           /\ Len(queries) <= end_of_day - start_of_day

\* A loop of successes and failures that has come to its end.
C8_Witness ==
    /\ AnswersNotBeforeQuery
    /\ pc = "returned"
    /\ Len(queries) >= MaxQueries
    /\ \E i \in 1..Len(queries) : IsNoTransit(queries[i])
    /\ Len(returned) >= 2

\* C9 as stated: the cursor never decreases in the loop, whatever the upstream answers.
C9_CursorNeverDecreases ==
    [][pc = "loop" => this_departure_time' >= this_departure_time]_vars

\* C9, amended: the cursor never decreases in the loop as long as every returned
\* itinerary departs at or after the instant asked for.
C9_CursorMonotoneWhenAnswersFollow ==
    [][(pc = "loop" /\ AnswersNotBeforeQuery')
           => this_departure_time' >= this_departure_time]_vars

\* The cursor has moved by the +1, by a first-step departure and by a retry jump.
C9_Witness ==
    /\ AnswersNotBeforeQuery
    /\ Len(queries) >= 3
    /\ \E i \in 1..Len(queries) : IsNoTransit(queries[i])
    /\ \E i \in 1..Len(queries) : queries[i].outcome = "ok" /\ queries[i].departure > queries[i].t
    /\ this_departure_time > start_of_day + SecondsPerDay \div 2

\* C10: start_of_day is the UTC-midnight epoch of the date minus the offset the
\* time-offset collaborator returned, end_of_day is 86400 later, and neither
\* changes during the enumeration.
C10_DayWindow ==
    /\ [](WindowResolved
            => /\ start_of_day = UtcMidnightEpoch(date) - origin_time_offset
               /\ end_of_day - start_of_day = 86400)
    /\ [][WindowResolved => (start_of_day' = start_of_day /\ end_of_day' = end_of_day)]_vars

\* 2020-02-29 at an offset of -14400 s, and 2021-03-01 at +7200 s, enumerated.
C10_Witness ==
    /\ pc = "returned"
    /\ \/ /\ date = << 2,0,2,0,0,2,2,9 >> /\ origin_time_offset = -14400
          /\ start_of_day = 1582948800 /\ end_of_day = 1583035200
       \/ /\ date = << 2,0,2,1,0,3,0,1 >> /\ origin_time_offset = 7200
          /\ start_of_day = 1614549600 /\ end_of_day = 1614636000

\* The coordinate keys of the steps of a list of itineraries.
StepLocations(list) ==
    UNION { UNION { { list[i][j].departure_location, list[i][j].arrival_location } :
                    j \in 1..Len(list[i]) } :
            i \in 1..Len(list) }

\* Every end of every step of the returned list: its coordinate key and locality.
AnnotatedEnds ==
    UNION { UNION { { << returned[i][j].departure_location,
                         returned[i][j].departure_locality >>,
                      << returned[i][j].arrival_location,
                         returned[i][j].arrival_locality >> } :
                    j \in 1..Len(returned[i]) } :
            i \in 1..Len(returned) }

\* C11: reverse geocoding is asked once for each distinct coordinate key of the
\* filtered itineraries' steps, never twice for a key, and steps that share a key
\* are given the same locality for it.
C11_OneQueryPerCoordinate ==
    /\ \A m, n \in 1..Len(geocode_queries) :
          geocode_queries[m].latlng = geocode_queries[n].latlng => m = n
    /\ \A m \in 1..Len(geocode_queries) :
          geocode_queries[m].latlng \in StepLocations(filtered_results)
    /\ (pc = "returned" /\ get_station_localities)
          => /\ Len(geocode_queries) = Cardinality(StepLocations(filtered_results))
             /\ \A a, b \in AnnotatedEnds : a[1] = b[1] => a[2] = b[2]

\* Two one-step itineraries between the same two stops: two queries, four ends.
C11_Witness ==
    /\ pc = "returned"
    /\ get_station_localities
    /\ Len(returned) = 2
    /\ returned[1][1].departure_location = returned[2][1].departure_location
    /\ returned[1][1].departure_locality = returned[2][1].departure_locality
    /\ Len(geocode_queries) = 2

IsLocality(x) == "locality" \in x.types
IsPostalTown(x) == "postal_town" \in x.types

\* The reverse-geocoding queries whose answer has been stored in location_lookup.
Resolved ==
    { m \in 1..Len(geocode_queries) : geocode_queries[m].latlng \in DOMAIN location_lookup }

\* C12 as stated: the name stored is that of the first component tagged locality
\* whenever there is one, and that of a postal town only when there is none.
C12_LocalityPreferred ==
    \A m \in Resolved :
        LET components == geocode_queries[m].loc_data.address_components
            localities == SelectSeq(components, IsLocality)
            towns == SelectSeq(components, IsPostalTown)
            name == location_lookup[geocode_queries[m].latlng]
        IN  IF localities # << >>
            THEN name = localities[1].long_name
            ELSE towns # << >> /\ name = towns[1].long_name

\* C12, amended: the name stored is that of the first component, in the order of
\* the answer, that is tagged locality or postal_town.
C12_FirstLocalityOrPostalTown ==
    \A m \in Resolved :
        LET components == geocode_queries[m].loc_data.address_components
            name == location_lookup[geocode_queries[m].latlng]
        IN  \E k \in 1..Len(components) :
              /\ IsLocality(components[k]) \/ IsPostalTown(components[k])
              /\ \A h \in 1..(k - 1) :
                    ~IsLocality(components[h]) /\ ~IsPostalTown(components[h])
              /\ name = components[k].long_name

\* A postal town listed before a locality gives the name; so does a locality
\* listed before a postal town and a second locality.
C12_Witness ==
    /\ pc = "returned"
    /\ \E k \in DOMAIN location_lookup : location_lookup[k] = "Ulm Post"
    /\ \E k \in DOMAIN location_lookup : location_lookup[k] = "Berlin"

\* The transit segments of the latest Directions answer.
AnswerIsTransit(x) == x.travel_mode # "WALKING"
TransitSegments == SelectSeq(timetable_data.steps, AnswerIsTransit)

\* C13: the replacements are applied to the departure and the arrival stop name
\* one after the other in the order supplied, each to every occurrence and to the
\* outcome of the one before.
C13_StationNameReplacements ==
    pc = "plan returned"
        => /\ Len(transit_results) = Len(TransitSegments)
           /\ \A j \in 1..Len(transit_results) :
                 /\ j <= Len(TransitSegments)
                 /\ transit_results[j].departure_stop =
                        ReplacedName(TransitSegments[j].departure_name,
                                     station_name_replacements)
                 /\ transit_results[j].arrival_stop =
                        ReplacedName(TransitSegments[j].arrival_name,
                                     station_name_replacements)

\* [[Hauptbahnhof, Hbf], [Bahnhof, Bf]] on a step from Frankfurt Hauptbahnhof to
\* Bahnhof Zoo Bahnhof.
C13_Witness ==
    /\ pc = "plan returned"
    /\ station_name_replacements = << << Hauptbahnhof, Hbf >>, << Bahnhof, Bf >> >>
    /\ \E j \in 1..Len(transit_results) :
          /\ transit_results[j].departure_stop =
                << "F", "r", "a", "n", "k", "f", "u", "r", "t", " ", "H", "b", "f" >>
          /\ transit_results[j].arrival_stop =
                << "B", "f", " ", "Z", "o", "o", " ", "B", "f" >>

\* The positions of the answer's leg that are not walked.
NotWalked == { i \in 1..Len(timetable_data.steps) :
                 timetable_data.steps[i].travel_mode # "WALKING" }

\* C14: the plan has one step for each segment that is not walked, in the order
\* of the leg, and none for a walked one.
C14_WalkingDropped ==
    pc = "plan returned"
        => /\ Len(transit_results) = Cardinality(NotWalked)
           /\ \E f \in [1..Len(transit_results) -> NotWalked] :
                 /\ \A j, k \in 1..Len(transit_results) : j < k => f[j] < f[k]
                 /\ \A j \in 1..Len(transit_results) :
                       LET x == timetable_data.steps[f[j]]
                       IN  /\ transit_results[j].departure_time_epoch = x.departure_time
                           /\ transit_results[j].arrival_time_epoch = x.arrival_time
                           /\ transit_results[j].departure_location =
                                  << x.departure_lat, x.departure_lng >>
                           /\ transit_results[j].arrival_location =
                                  << x.arrival_lat, x.arrival_lng >>

\* A ride, a walk and another ride: two steps.
C14_Witness ==
    /\ pc = "plan returned"
    /\ [i \in 1..Len(timetable_data.steps) |-> timetable_data.steps[i].travel_mode]
           = << "TRANSIT", "WALKING", "TRANSIT" >>
    /\ Len(transit_results) = 2
    /\ transit_results[1].departure_time_epoch = timetable_data.steps[1].departure_time
    /\ transit_results[2].departure_time_epoch = timetable_data.steps[3].departure_time

LastQuery == queries[Len(queries)]

\* The step from a state to the next is a Directions query answered "no transit
\* directions".
FailedQueryStep ==
    /\ Len(queries') = Len(queries) + 1
    /\ IsNoTransit(queries'[Len(queries')])

\* C15: the call never ends in DirectionsAPINoTransitDirectionsError; after a
\* transient failure it goes on, or the day is over and it ends in the "No
\* directions were found" ValueError exactly when nothing was accumulated.
C15_TransientFailureAbsorbed ==
    /\ pc # "DirectionsAPINoTransitDirectionsError"
    /\ (queries # << >> /\ IsNoTransit(LastQuery) /\ pc # "loop")
          => /\ this_departure_time + 1 > end_of_day
             /\ \/ pc = "ValueError: No directions were found"
                      /\ Len(full_transit_results) = 0
                \/ pc \in {"filter", "returned", "NoEligibleRoutesError"}
                      /\ Len(full_transit_results) > 0

\* The last query of the day fails and the list found before it is returned.
C15_Witness ==
    /\ pc = "returned"
    /\ queries # << >>
    /\ IsNoTransit(LastQuery)
    /\ Len(returned) >= 1

IsSuccess(q) == q.outcome = "ok"

\* C16 as stated: the accumulated list has one entry per successful query.
C16_OneEntryPerSuccess ==
    Len(full_transit_results) = Len(SelectSeq(queries, IsSuccess))

\* A successful query whose itinerary has a step departing before the end of the day.
IsSuccessWithinDay(q) ==
    q.outcome = "ok" /\ q.steps > 0 /\ q.departure + 1 <= end_of_day

\* C16, amended: a successful query that returns at least one step sets the
\* cursor to the first step's departure, and its itinerary is appended only if
\* that departure + 1 <= end_of_day: the accumulated list holds, in order, one
\* entry per such query.
C16_OneEntryPerSuccessWithinDay ==
    LET within == SelectSeq(queries, IsSuccessWithinDay)
    IN  /\ Len(full_transit_results) = Len(within)
        /\ \A j \in 1..Len(full_transit_results) :
              /\ j <= Len(within)
              /\ Len(full_transit_results[j]) = within[j].steps
              /\ full_transit_results[j][1].departure_time_epoch = within[j].departure
        /\ (queries # << >> /\ LastQuery.outcome = "ok" /\ LastQuery.steps > 0)
              => this_departure_time = LastQuery.departure

\* Three successful queries, the last one answered with a departure at the end
\* of the day: two entries, of different departures.
C16_Witness ==
    /\ pc = "filter"
    /\ Len(queries) = 3
    /\ \A i \in 1..3 : queries[i].outcome = "ok"
    /\ Len(full_transit_results) = 2
    /\ full_transit_results[1][1].departure_time_epoch
           < full_transit_results[2][1].departure_time_epoch
    /\ this_departure_time = end_of_day

\* C17: the consecutive-failure counter is 0 after a successful query, and the
\* first failure after a success moves the cursor 300 seconds past the instant
\* asked, however long the streaks before.
C17_AttemptsResetOnSuccess ==
    /\ []((queries # << >> /\ LastQuery.outcome = "ok") => failed_attempts = 0)
    /\ [][(queries # << >> /\ LastQuery.outcome = "ok" /\ FailedQueryStep)
             => this_departure_time' = queries'[Len(queries')].t + 300]_vars

\* Two failures, a success, a failure: the cursor is 300 s past the last query.
C17_Witness ==
    /\ Len(queries) = 4
    /\ IsNoTransit(queries[1]) /\ IsNoTransit(queries[2])
    /\ queries[3].outcome = "ok"
    /\ IsNoTransit(queries[4])
    /\ this_departure_time = queries[4].t + 300
    /\ failed_attempts = 1

\* C18: a query answered "no transit directions" leaves the accumulated list as
\* it was, also when the retry jump takes the cursor past the end of the day.
C18_FailureAppendsNothing ==
    [][FailedQueryStep => full_transit_results' = full_transit_results]_vars

\* A failure whose jump passes the end of the day, after one itinerary was found.
C18_Witness ==
    /\ pc = "filter"
    /\ queries # << >>
    /\ IsNoTransit(LastQuery)
    /\ Len(SelectSeq(queries, IsSuccess)) = 1
    /\ Len(full_transit_results) = 1
    /\ transit_results = full_transit_results[1]

\* C19: no Directions query is issued at an instant after end_of_day.
C19_NoQueryAfterDayEnd ==
    WindowResolved => \A i \in 1..Len(queries) : queries[i].t <= end_of_day

\* A query at end_of_day itself.
C19_Witness ==
    /\ WindowResolved
    /\ \E i \in 1..Len(queries) : queries[i].t = end_of_day

\* C20: every accumulated and every returned itinerary has a first-step departure
\* d with d + 1 <= end_of_day.
C20_AccumulatedDepartBeforeDayEnd ==
    /\ \A i \in 1..Len(full_transit_results) :
          /\ full_transit_results[i] # << >>
          /\ full_transit_results[i][1].departure_time_epoch + 1 <= end_of_day
    /\ \A i \in 1..Len(returned) :
          /\ returned[i] # << >>
          /\ returned[i][1].departure_time_epoch + 1 <= end_of_day

\* An itinerary departing in the last second of the day is returned.
C20_Witness ==
    /\ pc = "returned"
    /\ \E i \in 1..Len(returned) :
          returned[i][1].departure_time_epoch = end_of_day - 1

\* A successful answer whose leg has no transit segment.
IsOnFootOnly(q) == q.outcome = "ok" /\ q.steps = 0

\* C21: no accumulated or returned itinerary has zero steps; a successful answer
\* with only walking segments ends the call at that query in the IndexError of
\* line 359 with nothing returned; a returned list is not empty and each of
\* its itineraries has between 1 and max_transfers + 1 steps.
C21_NoEmptyItinerary ==
    /\ \A i \in 1..Len(full_transit_results) : Len(full_transit_results[i]) >= 1
    /\ \A i \in 1..Len(queries) :
          IsOnFootOnly(queries[i])
              => /\ i = Len(queries)
                 /\ pc = "IndexError"
                 /\ returned = << >>
    /\ pc = "IndexError" => IsOnFootOnly(queries[Len(queries)])
    /\ pc = "returned"
          => /\ Len(returned) >= 1
             /\ \A i \in 1..Len(returned) :
                   /\ Len(returned[i]) >= 1
                   /\ Len(returned[i]) <= max_transfers + 1
    /\ pc # "returned" => returned = << >>

\* A walking-only answer after two itineraries were accumulated.
C21_Witness ==
    /\ pc = "IndexError"
    /\ Len(full_transit_results) = 2
    /\ Len(queries) = 3
    /\ queries[3].status = "OK"
    /\ transit_results = << >>

\* C22: a non-OK answer raises the transient DirectionsAPINoTransitDirectionsError
\* exactly when it carries an available_travel_modes list without TRANSIT in it;
\* without the list, or with TRANSIT in the list, it raises
\* DirectionsAPIGenericError.
C22_FailureClassification ==
    LET has_list == timetable_data.has_modes
        modes == timetable_data.available_travel_modes
    IN  /\ (pc # "plan" /\ timetable_data.status # "OK")
              => /\ pc \in {"DirectionsAPINoTransitDirectionsError",
                            "DirectionsAPIGenericError"}
                 /\ pc = "DirectionsAPINoTransitDirectionsError"
                        <=> (has_list /\ "TRANSIT" \notin modes)
                 /\ pc = "DirectionsAPIGenericError"
                        <=> (~has_list \/ "TRANSIT" \in modes)
        /\ (pc # "plan" /\ timetable_data.status = "OK") => pc = "plan returned"

\* An answer with an empty list of travel modes is taken as transient.
C22_Witness ==
    /\ pc = "DirectionsAPINoTransitDirectionsError"
    /\ timetable_data.has_modes
    /\ timetable_data.available_travel_modes = {}

\* An accumulated itinerary the transfer filter keeps.
SurvivesFilter(x) == Len(x) <= max_transfers + 1

\* C23: reverse geocoding is asked only after the transfer filter has run and
\* only for coordinate keys of steps of itineraries the filter kept; a call
\* that ends in NoEligibleRoutesError has asked nothing.
C23_AnnotatorAfterFilter ==
    /\ \A i \in 1..Len(geocode_queries) :
          geocode_queries[i].latlng
              \in StepLocations(SelectSeq(full_transit_results, SurvivesFilter))
    /\ pc \in {"filter", "NoEligibleRoutesError"} => geocode_queries = << >>
    /\ geocode_queries # << >>
          => /\ pc \in {"localities", "returned", "GeocodingAPIError at line 404",
                        "IndexError at line 410"}
             /\ Len(filtered_results) >= 1

\* An itinerary was filtered out, and a coordinate key of its steps, that no kept
\* itinerary has, was not asked for.
C23_Witness ==
    /\ pc = "returned"
    /\ Len(returned) >= 1
    /\ Len(returned) < Len(full_transit_results)
    /\ Len(geocode_queries) >= 2
    /\ \E loc \in StepLocations(full_transit_results) :
          \A i \in 1..Len(geocode_queries) : geocode_queries[i].latlng # loc

\* The steps of filtered_results that carry a locality field.
AnnotatedSteps ==
    UNION { { << i, j >> : j \in { k \in 1..Len(filtered_results[i]) :
                                     \/ "departure_locality" \in DOMAIN filtered_results[i][k]
                                     \/ "arrival_locality" \in DOMAIN filtered_results[i][k] } } :
            i \in 1..Len(filtered_results) }

\* C24: a reverse-geocoding answer with a non-OK status, or without a locality or
\* postal_town component, ends the call with no step carrying a locality
\* field; steps carry them only once every distinct coordinate key is resolved.
C24_AnnotationAllOrNothing ==
    /\ pc \in {"GeocodingAPIError at line 404", "IndexError at line 410"}
          => /\ AnnotatedSteps = {}
             /\ returned = << >>
    /\ AnnotatedSteps # {}
          => /\ pc = "returned"
             /\ DOMAIN location_lookup = StepLocations(filtered_results)
             /\ \A i \in 1..Len(geocode_queries) :
                   /\ geocode_queries[i].loc_data.status = "OK"
                   /\ \E k \in 1..Len(geocode_queries[i].loc_data.address_components) :
                         geocode_queries[i].loc_data.address_components[k].types
                             \cap {"locality", "postal_town"} # {}
             /\ \A i \in 1..Len(filtered_results) :
                   \A j \in 1..Len(filtered_results[i]) : << i, j >> \in AnnotatedSteps

\* Two coordinates were resolved before the third query failed.
C24_Witness ==
    /\ pc = "GeocodingAPIError at line 404"
    /\ Len(geocode_queries) = 3
    /\ Cardinality(DOMAIN location_lookup) = 2
    /\ Len(filtered_results) >= 1

\* The outcomes in which a call ends without returning a list.
FatalOutcomes ==
    {"GeocodingAPIError", "ValueError: Coordinates could not be parsed",
     "TimeZoneAPIError", "DirectionsAPIGenericError", "IndexError",
     "ValueError: No directions were found", "NoEligibleRoutesError",
     "GeocodingAPIError at line 404", "IndexError at line 410"}

\* C25 as stated: the warning is logged exactly on the calls that have a failure
\* counted and return a list, and on no call that ends in a fatal error.
C25_WarningOnlyOnSuccess ==
    /\ pc = "returned" => (warned <=> total_times_error_encountered > 0)
    /\ pc \in FatalOutcomes => ~warned

\* The enumeration loop has ended with at least one itinerary accumulated.
EnumerationDone ==
    pc \in {"filter", "localities", "returned", "NoEligibleRoutesError",
            "GeocodingAPIError at line 404", "IndexError at line 410"}

\* C25, amended: the warning is logged exactly when the enumeration loop ends
\* with an itinerary accumulated and a transient failure counted, before the
\* transfer filter: the call may still end in NoEligibleRoutesError with the
\* warning logged.  No warning is logged on a call that fails in the loop or
\* with "No directions were found", and a returned list is the filtered
\* accumulated list, warning or not.
C25_WarningAtEndOfEnumeration ==
    /\ warned <=> (EnumerationDone /\ total_times_error_encountered > 0)
    /\ warned <=> (EnumerationDone /\ \E i \in 1..Len(queries) : IsNoTransit(queries[i]))
    /\ EnumerationDone => Len(full_transit_results) >= 1
    /\ pc = "returned" => returned = SelectSeq(full_transit_results, SurvivesFilter)

\* The warning was logged and the filter then left no itinerary.
C25_Witness ==
    /\ pc = "NoEligibleRoutesError"
    /\ warned
    /\ total_times_error_encountered = 1

====
